---- MODULE Spec2Model ----
(***************************************************************************)
(* Process lifecycle of server/main.py: the module-level CORS              *)
(* configuration and the lifespan context manager (startup, yield,         *)
(* shutdown) together with the heartbeat task it creates and cancels.      *)
(***************************************************************************)
EXTENDS Integers, Sequences, FiniteSets, TLC

VARIABLES
  env_MONGODB_URI,      \* os.environ: << >> when unset, <<value>> when set
  env_ALLOWED_ORIGINS,  \* os.environ: << >> when unset, <<chars>> when set
  allowed_origins,      \* module global handed to CORSMiddleware
  pc,                   \* position of the process in main.py
  mongodb_uri,          \* local of lifespan, same encoding as the environment
  mongodb_client,       \* app.mongodb_client: "unset", "open" or "closed"
  mongodb,              \* TRUE when app.mongodb has been assigned
  heartbeat_task,       \* app.heartbeat_task: "unset" or the state of the task
  raised,               \* exception that left lifespan, "none" when none did
  log,                  \* messages written through logger
  trace                 \* external calls made so far, in order

vars == << env_MONGODB_URI, env_ALLOWED_ORIGINS, allowed_origins, pc,
           mongodb_uri, mongodb_client, mongodb, heartbeat_task, raised,
           log, trace >>

\* Longest ALLOWED_ORIGINS value explored.
MaxLen == 3

\* Characters an ALLOWED_ORIGINS value is made of; "," is the separator.
Chars == {"a", "b", ","}

RECURSIVE SeqsUpTo(_, _)
SeqsUpTo(S, n) ==
  IF n = 0 THEN {<< >>}
  ELSE LET shorter == SeqsUpTo(S, n - 1)
       IN  shorter \cup {Append(s, c) : s \in {t \in shorter : Len(t) = n - 1}, c \in S}

\* Values of the MONGODB_URI variable: unset, empty, malformed, well formed.
MongoUriValues == { << >>, <<"">>, <<"http://db:27017">>, <<"mongodb://db:27017">> }

AllowedOriginsValues == { << >> } \cup { <<s>> : s \in SeqsUpTo(Chars, MaxLen) }

DefaultOrigins ==
  << <<"h","t","t","p",":","/","/","l","o","c","a","l","h","o","s","t",":","3","0","0","0">>,
     <<"h","t","t","p",":","/","/","1","2","7",".","0",".","0",".","1",":","3","0","0","0">>,
     <<"h","t","t","p","s",":","/","/","b","r","i","d","g","e","a","i",".","c","l","u","b">>,
     <<"h","t","t","p","s",":","/","/","w","w","w",".","b","r","i","d","g","e","a","i",".","c","l","u","b">>,
     <<"h","t","t","p","s",":","/","/","b","r","i","d","g","e","-","a","i","-","g","a","m","m","a",".","v","e","r","c","e","l",".","a","p","p">> >>

\* str.split(sep) of a non-empty separator: cut at every occurrence, keep
\* empty pieces, strip nothing.
RECURSIVE Split(_, _)
Split(s, sep) ==
  IF \A i \in DOMAIN s : s[i] # sep
  THEN << s >>
  ELSE LET i == CHOOSE k \in DOMAIN s :
                  s[k] = sep /\ \A j \in 1..(k - 1) : s[j] # sep
       IN  << SubSeq(s, 1, i - 1) >> \o Split(SubSeq(s, i + 1, Len(s)), sep)

\* The test written as `is not None`: an empty value counts as configured.
OriginsConfiguredNotNone(v) == v # << >>

\* `if allowed_origins_env:` -- truthiness of an Optional[str].
OriginsConfigured(v) == v # << >> /\ v[1] # << >>

\* The test written as `is None`: an empty URI is let through.
UriMissingNoneOnly(v) == v = << >>

\* `if not mongodb_uri:` -- true for None and for the empty string.
UriMissing(v) == v = << >> \/ v[1] = ""

\* AsyncIOMotorClient(uri) rejects a URI whose scheme is not mongodb.
UriWellFormed(v) == v = <<"mongodb://db:27017">>

\* The lifecycle state the position stands for.
lifecycle ==
  CASE pc \in {"Import", "Unstarted"} -> "Unstarted"
    [] pc \in {"L27", "L33", "L36", "L39", "L42", "L50"} -> "Starting"
    [] pc = "Running" -> "Running"
    [] pc \in {"L53", "L58"} -> "ShuttingDown"
    [] OTHER -> pc

Calls(name) == Cardinality({ i \in DOMAIN trace : trace[i] = name })

Init ==
  /\ env_MONGODB_URI \in MongoUriValues
  /\ env_ALLOWED_ORIGINS \in AllowedOriginsValues
  /\ allowed_origins = << >>
  /\ pc = "Import"
  /\ mongodb_uri = << >>
  /\ mongodb_client = "unset"
  /\ mongodb = FALSE
  /\ heartbeat_task = "unset"
  /\ raised = "none"
  /\ log = << >>
  /\ trace = << >>

\* Module level, lines 69-91: the allow-list is computed once at import.
ConfigureCORS ==
  /\ pc = "Import"
  /\ allowed_origins' =
       IF OriginsConfigured(env_ALLOWED_ORIGINS)
       THEN Split(env_ALLOWED_ORIGINS[1], ",")
       ELSE DefaultOrigins
  /\ pc' = "Unstarted"
  /\ UNCHANGED << env_MONGODB_URI, env_ALLOWED_ORIGINS, mongodb_uri,
                  mongodb_client, mongodb, heartbeat_task, raised, log, trace >>

\* The server enters the lifespan context.
EnterLifespan ==
  /\ pc = "Unstarted"
  /\ pc' = "L27"
  /\ UNCHANGED << env_MONGODB_URI, env_ALLOWED_ORIGINS, allowed_origins,
                  mongodb_uri, mongodb_client, mongodb, heartbeat_task,
                  raised, log, trace >>

\* The handler without its `raise`: the error is logged and startup goes on
\* to the yield.
OnStartupErrorSwallowed(exc, called) ==
  /\ log' = Append(log, "error: Failed to connect to MongoDB")
  /\ raised' = raised
  /\ pc' = "L50"
  /\ trace' = trace \o called

\* `except Exception as e: logger.error(...); raise`.
OnStartupError(exc, called) ==
  /\ log' = Append(log, "error: Failed to connect to MongoDB")
  /\ raised' = exc
  /\ pc' = "StartupFailed"
  /\ trace' = trace \o called

\* Lines 27-31.
GetMongoUri ==
  /\ pc = "L27"
  /\ mongodb_uri' = env_MONGODB_URI
  /\ IF UriMissing(env_MONGODB_URI)
     THEN OnStartupError("ValueError", <<"getenv">>)
     ELSE /\ log' = Append(log, "info: Connecting to MongoDB...")
          /\ trace' = Append(trace, "getenv")
          /\ pc' = "L33"
          /\ UNCHANGED raised
  /\ UNCHANGED << env_MONGODB_URI, env_ALLOWED_ORIGINS, allowed_origins,
                  mongodb_client, mongodb, heartbeat_task >>

\* The client is created but the ping is left out.
CreateClientSkipPing ==
  /\ pc = "L33"
  /\ IF UriWellFormed(mongodb_uri)
     THEN /\ mongodb_client' = "open"
          /\ trace' = Append(trace, "connect")
          /\ pc' = "L39"
          /\ UNCHANGED << raised, log >>
     ELSE /\ OnStartupError("InvalidURI", <<"connect">>)
          /\ UNCHANGED mongodb_client
  /\ UNCHANGED << env_MONGODB_URI, env_ALLOWED_ORIGINS, allowed_origins,
                  mongodb_uri, mongodb, heartbeat_task >>

\* Line 33.
CreateClient ==
  /\ pc = "L33"
  /\ IF UriWellFormed(mongodb_uri)
     THEN /\ mongodb_client' = "open"
          /\ trace' = Append(trace, "connect")
          /\ pc' = "L36"
          /\ UNCHANGED << raised, log >>
     ELSE /\ OnStartupError("InvalidURI", <<"connect">>)
          /\ UNCHANGED mongodb_client
  /\ UNCHANGED << env_MONGODB_URI, env_ALLOWED_ORIGINS, allowed_origins,
                  mongodb_uri, mongodb, heartbeat_task >>

\* Lines 36-37: the awaited ping answers or fails.
Ping ==
  /\ pc = "L36"
  /\ \E ok \in BOOLEAN :
       IF ok
       THEN /\ log' = Append(log, "info: MongoDB connection successful")
            /\ trace' = Append(trace, "ping")
            /\ pc' = "L39"
            /\ UNCHANGED raised
       ELSE OnStartupError("PingError", <<"ping">>)
  /\ UNCHANGED << env_MONGODB_URI, env_ALLOWED_ORIGINS, allowed_origins,
                  mongodb_uri, mongodb_client, mongodb, heartbeat_task >>

\* Line 39.
SetDatabase ==
  /\ pc = "L39"
  /\ mongodb' = TRUE
  /\ pc' = "L42"
  /\ UNCHANGED << env_MONGODB_URI, env_ALLOWED_ORIGINS, allowed_origins,
                  mongodb_uri, mongodb_client, heartbeat_task, raised, log,
                  trace >>

\* The task is created but its handle is not stored on app.
StartHeartbeatNotStored ==
  /\ pc = "L42"
  /\ heartbeat_task' = heartbeat_task
  /\ log' = Append(log, "info: WebSocket heartbeat monitor started")
  /\ trace' = Append(trace, "create_task")
  /\ pc' = "L50"
  /\ UNCHANGED << env_MONGODB_URI, env_ALLOWED_ORIGINS, allowed_origins,
                  mongodb_uri, mongodb_client, mongodb, raised >>

\* Lines 42-44.
StartHeartbeat ==
  /\ pc = "L42"
  /\ heartbeat_task' = "pending"
  /\ log' = Append(log, "info: WebSocket heartbeat monitor started")
  /\ trace' = Append(trace, "create_task")
  /\ pc' = "L50"
  /\ UNCHANGED << env_MONGODB_URI, env_ALLOWED_ORIGINS, allowed_origins,
                  mongodb_uri, mongodb_client, mongodb, raised >>

\* Line 50: control goes back to the server, which starts serving.
Yield ==
  /\ pc = "L50"
  /\ trace' = Append(trace, "yield")
  /\ pc' = "Running"
  /\ UNCHANGED << env_MONGODB_URI, env_ALLOWED_ORIGINS, allowed_origins,
                  mongodb_uri, mongodb_client, mongodb, heartbeat_task,
                  raised, log >>

\* The monitor coroutine returns or raises while the server is serving.
HeartbeatExit ==
  /\ pc = "Running"
  /\ heartbeat_task = "pending"
  /\ \E outcome \in {"finished", "failed"} : heartbeat_task' = outcome
  /\ UNCHANGED << env_MONGODB_URI, env_ALLOWED_ORIGINS, allowed_origins, pc,
                  mongodb_uri, mongodb_client, mongodb, raised, log, trace >>

\* The server resumes the lifespan after the yield.
ShutdownSignal ==
  /\ pc = "Running"
  /\ pc' = "L53"
  /\ UNCHANGED << env_MONGODB_URI, env_ALLOWED_ORIGINS, allowed_origins,
                  mongodb_uri, mongodb_client, mongodb, heartbeat_task,
                  raised, log, trace >>

\* Lines 53-55: close() is outside any try, so its error leaves lifespan.
CloseClient ==
  /\ pc = "L53"
  /\ IF mongodb_client # "unset"
     THEN \E ok \in BOOLEAN :
            IF ok
            THEN /\ mongodb_client' = "closed"
                 /\ trace' = Append(trace, "close")
                 /\ log' = Append(log, "info: Disconnected from MongoDB")
                 /\ pc' = "L58"
                 /\ UNCHANGED raised
            ELSE /\ mongodb_client' \in {"open", "closed"}
                 /\ trace' = Append(trace, "close")
                 /\ raised' = "CloseError"
                 /\ pc' = "ShutdownFailed"
                 /\ UNCHANGED log
     ELSE /\ pc' = "L58"
          /\ UNCHANGED << mongodb_client, trace, log, raised >>
  /\ UNCHANGED << env_MONGODB_URI, env_ALLOWED_ORIGINS, allowed_origins,
                  mongodb_uri, mongodb, heartbeat_task >>

\* Task.cancel(): requests cancellation of a pending task, leaves a
\* finished one as it is and never raises.
Cancel(task) == IF task = "pending" THEN "cancelling" ELSE task

\* Lines 58-60.
CancelHeartbeat ==
  /\ pc = "L58"
  /\ IF heartbeat_task # "unset"
     THEN /\ heartbeat_task' = Cancel(heartbeat_task)
          /\ trace' = Append(trace, "cancel")
          /\ log' = Append(log, "info: WebSocket heartbeat monitor stopped")
     ELSE UNCHANGED << heartbeat_task, trace, log >>
  /\ pc' = "Stopped"
  /\ UNCHANGED << env_MONGODB_URI, env_ALLOWED_ORIGINS, allowed_origins,
                  mongodb_uri, mongodb_client, mongodb, raised >>

\* The event loop delivers the requested cancellation to the task.
HeartbeatCancelled ==
  /\ pc = "Stopped"
  /\ heartbeat_task = "cancelling"
  /\ heartbeat_task' = "cancelled"
  /\ UNCHANGED << env_MONGODB_URI, env_ALLOWED_ORIGINS, allowed_origins, pc,
                  mongodb_uri, mongodb_client, mongodb, raised, log, trace >>

Next ==
  \/ ConfigureCORS
  \/ EnterLifespan
  \/ GetMongoUri
  \/ CreateClient
  \/ Ping
  \/ SetDatabase
  \/ StartHeartbeat
  \/ Yield
  \/ HeartbeatExit
  \/ ShutdownSignal
  \/ CloseClient
  \/ CancelHeartbeat
  \/ HeartbeatCancelled

Spec == Init /\ [][Next]_vars

(***************************************************************************)
(* Properties                                                              *)
(***************************************************************************)

Terminal == pc \in {"StartupFailed", "Stopped", "ShutdownFailed"}

StartupOrder == << "getenv", "connect", "ping", "create_task", "yield" >>

StartupErrorLogged ==
  \E i \in DOMAIN log : log[i] = "error: Failed to connect to MongoDB"

RECURSIVE Join(_, _)
Join(parts, sep) ==
  IF Len(parts) = 1 THEN parts[1]
  ELSE parts[1] \o << sep >> \o Join(Tail(parts), sep)

\* C1: when the ping fails after the client was constructed, startup ends in
\* StartupFailed without ever serving, and the client has been closed
\* exactly once.
C1_PingFailureReleasesHandle ==
  (pc = "StartupFailed" /\ raised = "PingError")
    => /\ Calls("yield") = 0
       /\ Calls("close") = 1
       /\ mongodb_client = "closed"

\* C2: once the shutdown sequence is over, the close was made before the
\* cancel and both were made, also when the close raised.
C2_CloseThenCancelBothAttempted ==
  (pc \in {"Stopped", "ShutdownFailed"})
    => \E i, j \in DOMAIN trace :
         i < j /\ trace[i] = "close" /\ trace[j] = "cancel"

\* C3: with MONGODB_URI unset or empty, startup stops at the configuration
\* read with the ValueError leaving lifespan; the server never serves, no
\* client is created and no heartbeat task is started.
C3_MissingUriFailsStartup ==
  env_MONGODB_URI \in { << >>, << "" >> }
    => /\ lifecycle \in {"Unstarted", "Starting", "StartupFailed"}
       /\ pc \notin {"Import", "Unstarted", "L27"}
            => pc = "StartupFailed" /\ raised = "ValueError" /\ StartupErrorLogged
       /\ mongodb_client = "unset"
       /\ mongodb = FALSE
       /\ heartbeat_task = "unset"
       /\ Calls("connect") = 0 /\ Calls("create_task") = 0 /\ Calls("yield") = 0

C3_Witness ==
  /\ env_MONGODB_URI = << "" >>
  /\ pc = "StartupFailed"
  /\ raised = "ValueError"

\* C4: in a run that started the heartbeat task, the task has been cancelled
\* exactly once when the process has stopped.
C4_StartedTaskCancelledOnce ==
  (Terminal /\ Calls("create_task") >= 1) => Calls("cancel") = 1

\* C5: the startup calls are made in the order config read, client connect,
\* ping, task start, and the server serves only after all four succeeded,
\* with the database handle set.
C5_StartupOrder ==
  /\ LET n == IF Len(trace) < Len(StartupOrder) THEN Len(trace)
              ELSE Len(StartupOrder)
     IN  SubSeq(trace, 1, n) = SubSeq(StartupOrder, 1, n)
  /\ Calls("yield") >= 1
       => /\ SubSeq(trace, 1, Len(StartupOrder)) = StartupOrder
          /\ ~StartupErrorLogged
          /\ mongodb_client # "unset"
          /\ mongodb = TRUE
  /\ pc = "Running"
       => /\ mongodb_client = "open"
          /\ mongodb = TRUE
          /\ raised = "none"

C5_Witness ==
  /\ pc = "Running"
  /\ trace = StartupOrder

\* C6: while Running the heartbeat task handle is set, and before the
\* shutdown sequence the orchestrator has neither cancelled nor cleared it.
C6_RunningHasTaskHandle ==
  /\ pc = "Running" => heartbeat_task # "unset"
  /\ lifecycle \in {"Unstarted", "Starting", "Running"}
       => /\ Calls("cancel") = 0
          /\ heartbeat_task \notin {"cancelling", "cancelled"}
          /\ Calls("create_task") = 1 => heartbeat_task # "unset"

C6_Witness ==
  /\ pc = "Running"
  /\ heartbeat_task = "pending"
  /\ Calls("cancel") = 0

\* C7: the process holds no live database handle in StartupFailed nor in
\* Stopped.
C7_NoHandleOutsideServing ==
  pc \in {"StartupFailed", "Stopped"} => mongodb_client # "open"

\* C8: at the end of shutdown a stored task handle has been sent a cancel,
\* whatever the state of the task was, and a task that had finished or
\* failed is left as it was.
C8_StoredTaskAlwaysCancelled ==
  (pc \in {"Stopped", "ShutdownFailed"} /\ heartbeat_task # "unset")
    => /\ Calls("cancel") >= 1
       /\ heartbeat_task \in {"cancelling", "cancelled", "finished", "failed"}

TerminalStaysPut ==
  pc \in {"StartupFailed", "Stopped"} => (pc' = pc /\ trace' = trace)

\* C10: close and cancel are each made at most once and only in runs that
\* reached the yield without a startup error; a failed startup is logged and
\* re-raised with no shutdown call made; StartupFailed and Stopped are never
\* left and no further call is made from them.
C10_ShutdownOnlyAfterRunning ==
  /\ [](/\ Calls("close") <= 1
        /\ Calls("cancel") <= 1
        /\ (Calls("close") + Calls("cancel") >= 1)
             => (Calls("yield") = 1 /\ ~StartupErrorLogged)
        /\ Calls("cancel") = 1 => Calls("close") = 1
        /\ StartupErrorLogged
             => (pc = "StartupFailed" /\ raised \notin {"none", "CloseError"})
        /\ pc = "StartupFailed" => StartupErrorLogged)
  /\ [][TerminalStaysPut]_vars

C10_Witness ==
  /\ pc = "StartupFailed"
  /\ raised = "PingError"
  /\ mongodb_client = "open"
  /\ Calls("close") = 0
  /\ Calls("cancel") = 0

====
